---------------------------- MODULE Spec2Model ----------------------------
(***************************************************************************)
(* Model of Remove-Sora-Watermark/watcher.py: the VideoProcessor event     *)
(* handler, its dispatch routine _process_video, the startup scan of main  *)
(* and the periodic_check sweeper thread.                                  *)
(*                                                                         *)
(* Three Python threads run the same VideoProcessor object without any     *)
(* lock: the main thread (startup scan), the watchdog observer thread      *)
(* ("listener", which runs on_created for one event at a time) and the     *)
(* daemon thread running periodic_check ("sweeper").  A thread switch can  *)
(* happen between any two statements, so every read or write of the shared *)
(* set processed_files and of the tracking file is a step of its own.      *)
(*                                                                         *)
(* File names are sequences of one-character strings, so that the regular  *)
(* expression, the output name and the recency key are computed from the   *)
(* characters as the code computes them.  The tracking file is the         *)
(* sequence of its lines; a line holds str(path), which line.strip() gives *)
(* back unchanged for every path that reaches _process_video (each starts  *)
(* with "/" and ends with ".mp4").  Reads and writes of the tracking file  *)
(* succeed in Spec: I/O faults are not part of this specification.         *)
(***************************************************************************)
EXTENDS Naturals, Sequences, FiniteSets

(***************************************************************************)
(* Bounds of the model.                                                    *)
(***************************************************************************)
MaxQueue == 1      \* file-system events waiting for the listener
MaxLog == 2        \* lines the tracking file may hold

(***************************************************************************)
(* Characters and file names.                                              *)
(***************************************************************************)
Digits == {"0", "1", "2", "3", "4", "5", "6", "7", "8", "9"}

NameA == <<"2","0","2","5","1","1","0","1","_","1","2","0","0","_","a",".","m","p","4">>
NameB == <<"2","0","2","5","1","1","0","2","_","1","3","0","0","_","b",".","m","p","4">>
NameN == <<"n","o","t","_","a","_","m","a","t","c","h",".","m","p","4">>

FileA == [dir |-> "Big Downloads", name |-> NameA]
FileB == [dir |-> "Big Downloads", name |-> NameB]
FileN == [dir |-> "Big Downloads", name |-> NameN]

\* the files that may exist under input_folder
Files == {FileA, FileB}

None == [dir |-> "", name |-> <<>>]

Threads == {"main", "listener", "sweeper"}

(***************************************************************************)
(* self.pattern = re.compile(r'^(\d{8})_(\d+)_') and pattern.match(name).  *)
(***************************************************************************)
RECURSIVE DigitRun(_, _)
DigitRun(name, i) ==
    IF i <= Len(name) /\ name[i] \in Digits THEN 1 + DigitRun(name, i + 1) ELSE 0

\* length of the (\d+) group; 0 when the pattern does not match
TimeLen(name) ==
    IF /\ Len(name) >= 11
       /\ \A i \in 1..8 : name[i] \in Digits
       /\ name[9] = "_"
    THEN LET k == DigitRun(name, 10)
         IN  IF k >= 1 /\ 10 + k <= Len(name) /\ name[10 + k] = "_" THEN k ELSE 0
    ELSE 0

\* Faulty variant: the pattern without its second underscore, ^(\d{8})_(\d+)
PatternMatchOneUnderscore(name) ==
    /\ Len(name) >= 10
    /\ \A i \in 1..8 : name[i] \in Digits
    /\ name[9] = "_"
    /\ name[10] \in Digits

PatternMatch(name) == TimeLen(name) > 0

Group1(name) == SubSeq(name, 1, 8)
Group2(name) == SubSeq(name, 10, 9 + TimeLen(name))

\* Path.suffix.lower() == '.mp4', also what rglob("*.mp4") selects
IsMp4(name) ==
    /\ Len(name) > 4
    /\ SubSeq(name, Len(name) - 3, Len(name)) \in
          {<<".", m, p, "4">> : m \in {"m", "M"}, p \in {"p", "P"}}

ExtractFilenamePrefix(name) == Group1(name) \o <<"_">> \o Group2(name)

\* Faulty variant: the fallback taken for every name
GenerateOutputKeepsName(name) == <<"w", "r", "_">> \o name

GenerateOutputFilename(name) ==
    IF PatternMatch(name)
    THEN <<"w", "r", "_">> \o ExtractFilenamePrefix(name) \o <<".", "m", "p", "4">>
    ELSE <<"w", "r", "_">> \o name

OutputNames == {GenerateOutputFilename(f.name) : f \in Files}

(***************************************************************************)
(* get_timestamp: int(date_str + time_str), 0 without a match.  The key is *)
(* kept as its decimal digits (Python integers are unbounded); two keys    *)
(* are compared as integers: without leading zeros, the longer is larger,  *)
(* and equal lengths compare digit by digit.                               *)
(***************************************************************************)
DigitVal(c) ==
    CASE c = "0" -> 0 [] c = "1" -> 1 [] c = "2" -> 2 [] c = "3" -> 3 [] c = "4" -> 4
      [] c = "5" -> 5 [] c = "6" -> 6 [] c = "7" -> 7 [] c = "8" -> 8 [] c = "9" -> 9

RECURSIVE StripZeros(_)
StripZeros(d) ==
    IF Len(d) > 1 /\ d[1] = "0" THEN StripZeros(Tail(d)) ELSE d

RECURSIVE LexLess(_, _)
LexLess(a, b) ==
    IF a = <<>> THEN FALSE
    ELSE IF DigitVal(a[1]) # DigitVal(b[1]) THEN DigitVal(a[1]) < DigitVal(b[1])
    ELSE LexLess(Tail(a), Tail(b))

IntLess(a, b) ==
    LET x == StripZeros(a)
        y == StripZeros(b)
    IN  IF Len(x) # Len(y) THEN Len(x) < Len(y) ELSE LexLess(x, y)

GetTimestamp(f) ==
    IF PatternMatch(f.name) THEN Group1(f.name) \o Group2(f.name) ELSE <<"0">>

(***************************************************************************)
(* list.sort(key=get_timestamp, reverse=True): a stable sort, largest key  *)
(* first, equal keys in their order of enumeration.                        *)
(***************************************************************************)
RECURSIVE InsertDesc(_, _)
InsertDesc(x, s) ==
    IF s = <<>> THEN <<x>>
    ELSE IF IntLess(GetTimestamp(Head(s)), GetTimestamp(x)) THEN <<x>> \o s
    ELSE <<Head(s)>> \o InsertDesc(x, Tail(s))

\* Faulty variant: the sort without reverse=True
RECURSIVE SortOldestFirst(_)
SortOldestFirst(s) ==
    IF s = <<>> THEN <<>>
    ELSE LET rest == SortOldestFirst(SubSeq(s, 1, Len(s) - 1))
             x == s[Len(s)]
             smaller == SelectSeq(rest, LAMBDA y : ~IntLess(GetTimestamp(x), GetTimestamp(y)))
             larger == SelectSeq(rest, LAMBDA y : IntLess(GetTimestamp(x), GetTimestamp(y)))
         IN  smaller \o <<x>> \o larger

RECURSIVE SortNewestFirst(_)
SortNewestFirst(s) ==
    IF s = <<>> THEN <<>>
    ELSE InsertDesc(s[Len(s)], SortNewestFirst(SubSeq(s, 1, Len(s) - 1)))

Range(s) == {s[i] : i \in 1..Len(s)}

\* the orders in which rglob may enumerate a set of files
Enumerations(S) ==
    {s \in [1..Cardinality(S) -> S] : \A i, j \in 1..Cardinality(S) : s[i] = s[j] => i = j}

\* Faulty variant: the rewrite keeps every line
FilterLinesKeepsAll(log, p) == log

\* lines kept by the rewrite of the tracking file: line.strip() != file_path_str
FilterLines(log, p) == SelectSeq(log, LAMBDA l : l # p)


(***************************************************************************)
(* State.                                                                  *)
(***************************************************************************)
VARIABLES
    inputs,           \* the .mp4 files that exist under input_folder
    outputs,          \* the file names that exist in output_folder
    processed_files,  \* VideoProcessor.processed_files
    tracking_file,    \* the lines of .processed_files.txt
    progress,         \* .watermark_progress.json
    events,           \* created events the observer has not handled yet
    pc,               \* where each thread is
    cur,              \* per thread: file_path of _process_video / mp4_file of the sweep
    lines,            \* per thread: the local list "lines" of a tracking-file rewrite
    todo,             \* sweeper: matching_files not yet visited in this tick
    cands,            \* sweeper: new_unprocessed
    added,            \* history, per thread: what the running _process_video call has recorded
    healed,           \* history, sweeper: the files this tick removed from the ledger
    calls,            \* history of the sequential driver of SeqSpec (unused in Spec)
    skipped,          \* log: the destination on_moved last skipped at its containment check
    arg,              \* PatternSpec: the file name under test
    res,              \* PatternSpec: what the name tests gave for it
    exit_status,      \* "running", then "success" (status 0) or "failure" (nonzero)
    notes,            \* history of the driver's calls: the last notification attempted
    kept,             \* history, per thread: the other paths that were in processed_files
                      \* and in the tracking file when its running removal began, and
                      \* that no removal has discarded since
    size,             \* st_size of the file the event handler is stabilizing
    initial_size,     \* on_created / on_moved: the local initial_size
    current_size,     \* on_created / on_moved: the local current_size
    waits,            \* history: the time.sleep calls of the running stabilization
    stabilized,       \* log: how the last stabilization ended, and for which file
    successful,       \* process_sora_shorts.process_videos: successful
    failed,           \* process_sora_shorts.process_videos: failed
    invoked,          \* history: the files process_videos has passed to sora_wm.run
    ended,            \* log: where process_sora_shorts.main has returned, "" before
    startup           \* history of StartupSpec: processed_files as loaded, the files
                      \* present then, the files the startup scan has enumerated and
                      \* those it has handed to _process_video

vars == <<inputs, outputs, processed_files, tracking_file, progress, events,
          pc, cur, lines, todo, cands, added, healed, calls, skipped, arg, res, exit_status,
          notes, kept, size, initial_size, current_size, waits, stabilized,
          successful, failed, invoked, ended, startup>>

\* the variables of the batch command, which only BatchSpec changes
batch == <<successful, failed, invoked, ended>>

\* the variables only the step-by-step stabilization of StableSpec changes
aux == <<size, initial_size, current_size, waits, stabilized>>

AuxInit ==
    /\ size = 0
    /\ initial_size = 0
    /\ current_size = 0
    /\ waits = 0
    /\ stabilized = {}
    /\ successful = 0
    /\ failed = 0
    /\ invoked = <<>>
    /\ ended = ""

NoResult == [done |-> FALSE]

NoProgress == [exists |-> FALSE, progress |-> 0, filename |-> <<>>]

\* the percentages run() reports through progress_callback
ProgressValues == {50}

MatchingFiles == {f \in Files : IsMp4(f.name) /\ PatternMatch(f.name)}

OutputOf(f) == GenerateOutputFilename(f.name)

\* a tracking file left by an earlier run: no line twice
InitLogs ==
    {s \in UNION {[1..n -> MatchingFiles] : n \in 0..Cardinality(MatchingFiles)} :
        \A i, j \in 1..Len(s) : s[i] = s[j] => i = j}

(***************************************************************************)
(* The state when main() has built the VideoProcessor (whose __init__ has  *)
(* run _load_processed_files) and is about to start the observer and the   *)
(* startup scan.  The folders hold what earlier runs and the user left.    *)
(***************************************************************************)
LoadProcessedFiles(log) == Range(log)

StartState(mainAt) ==
    /\ inputs \in SUBSET Files
    /\ outputs \in SUBSET {OutputOf(f) : f \in MatchingFiles}
    /\ tracking_file \in InitLogs
    /\ processed_files = LoadProcessedFiles(tracking_file)
    /\ progress = NoProgress
    /\ events = <<>>
    /\ pc = [t \in Threads |->
               CASE t = "main" -> mainAt [] t = "listener" -> "idle" [] t = "sweeper" -> "off"]
    /\ cur = [t \in Threads |-> None]
    /\ lines = [t \in Threads |-> <<>>]
    /\ todo = <<>>
    /\ cands = <<>>
    /\ added = [t \in Threads |-> {}]
    /\ healed = {}
    /\ calls = <<>>
    /\ skipped = {}
    /\ arg = <<>>
    /\ res = NoResult
    /\ exit_status = "running"
    /\ notes = {}
    /\ kept = [t \in Threads |-> {}]
    /\ AuxInit

\* no history of the startup is kept
NoStartup == [on |-> FALSE]

Start(mainAt) == StartState(mainAt) /\ startup = NoStartup

Init == Start("scan")

\* Faulty variant: after its call of _process_video the sweeper goes on with the tick
ReturnSweeperGoesOn(t) ==
    CASE t = "main" -> "scan_done" [] t = "listener" -> "idle" [] t = "sweeper" -> "loop"

\* Faulty variant: the startup scan takes the next unprocessed file after each call
ReturnMainScansOn(t) ==
    CASE t = "main" -> "scan" [] t = "listener" -> "idle" [] t = "sweeper" -> "sleep"

\* where a thread continues when _process_video returns
Return(t) ==
    CASE t = "main" -> "scan_done" [] t = "listener" -> "idle" [] t = "sweeper" -> "sleep"

\* the return itself: the locals of the call are gone (and, for the sweeper, those of the tick)
Returns(t) ==
    /\ pc' = [pc EXCEPT ![t] = Return(t)]
    /\ cur' = [cur EXCEPT ![t] = None]
    /\ added' = [added EXCEPT ![t] = {}]
    /\ cands' = IF t = "sweeper" THEN <<>> ELSE cands
    /\ healed' = IF t = "sweeper" THEN {} ELSE healed

Running(t) == pc[t] = "transform"

\* the places of a thread inside _process_video
InCall(t) ==
    pc[t] \in {"pv_check", "pv_add", "pv_save", "pv_start", "transform",
               "pv_fail_read", "pv_fail_write"}

\* history: the driver's current call (if there is a driver) is marked
Noted(what) ==
    IF calls = <<>> THEN calls ELSE [calls EXCEPT ![Len(calls)][what] = TRUE]

(***************************************************************************)
(* send_macos_notification.                                                *)
(***************************************************************************)
\* what subprocess.run(["osascript", ...], check=False, timeout=5) does: return
\* code 0, a nonzero return code, or an exception (no osascript, TimeoutExpired)
Osascript == {"sent", "nonzero", "raises"}

\* Faulty variant: an exception of subprocess.run leaves the function
SendMacosNotificationPropagates(o) ==
    IF o = "raises" THEN "raised" ELSE "returned"

\* lines 42-71: the whole body is in try; except Exception logs the error
SendMacosNotification(o) ==
    CASE o = "sent" -> "returned"
      [] o = "nonzero" -> "returned"
      [] o = "raises" -> "returned"

\* history: the notification point and what osascript did there
Notified(point, o) ==
    IF calls = <<>> THEN notes ELSE {[point |-> point, osascript |-> o]}

(***************************************************************************)
(* _process_video, one step per access to shared state.                    *)
(***************************************************************************)
\* lines 198-210: the pattern check and the membership test
PVCheck(t) ==
    /\ pc[t] = "pv_check"
    /\ IF PatternMatch(cur[t].name) /\ cur[t] \notin processed_files
       THEN /\ pc' = [pc EXCEPT ![t] = "pv_add"]
            /\ UNCHANGED <<cur, cands, added, healed>>
       ELSE Returns(t)
    /\ UNCHANGED <<inputs, outputs, processed_files, tracking_file, progress, events,
                   lines, todo, calls, skipped, arg, res, exit_status, notes, kept, aux, batch, startup>>

\* Faulty variant: the path is not added to processed_files before the transform
PVAddSkipped(t) ==
    /\ pc[t] = "pv_add"
    /\ pc' = [pc EXCEPT ![t] = "pv_save"]
    /\ UNCHANGED <<inputs, outputs, processed_files, tracking_file, progress, events, cur,
                   lines, todo, cands, added, healed, calls, skipped, arg, res, exit_status, notes, kept, aux, batch, startup>>

\* line 215: self.processed_files.add(file_path_str)
PVAdd(t) ==
    /\ pc[t] = "pv_add"
    /\ processed_files' = processed_files \cup {cur[t]}
    /\ added' = [added EXCEPT ![t] = @ \cup {"mem"}]
    /\ pc' = [pc EXCEPT ![t] = "pv_save"]
    /\ UNCHANGED <<inputs, outputs, tracking_file, progress, events, cur, lines, todo,
                   cands, healed, calls, skipped, arg, res, exit_status, notes, kept, aux, batch, startup>>

\* line 216 and 115-121: _save_processed_file appends one line
SaveProcessedFile(t) ==
    /\ pc[t] = "pv_save"
    /\ Len(tracking_file) < MaxLog
    /\ tracking_file' = Append(tracking_file, cur[t])
    /\ added' = [added EXCEPT ![t] = @ \cup {"log"}]
    /\ pc' = [pc EXCEPT ![t] = "pv_start"]
    /\ UNCHANGED <<inputs, outputs, processed_files, progress, events, cur, lines, todo,
                   cands, healed, calls, skipped, arg, res, exit_status, notes, kept, aux, batch, startup>>

\* lines 225-248: the start notification, _write_progress(1, name), then
\* sora_wm.run(...) is entered; an exception at line 226 would leave the call
PVStart(t) ==
    /\ pc[t] = "pv_start"
    /\ \E o \in Osascript :
          /\ notes' = Notified("start", o)
          /\ IF SendMacosNotification(o) = "returned"
             THEN /\ progress' = [exists |-> TRUE, progress |-> 1, filename |-> cur[t].name]
                  /\ pc' = [pc EXCEPT ![t] = "transform"]
                  /\ calls' = Noted("invoked")
                  /\ UNCHANGED <<cur, cands, added, healed>>
             ELSE /\ Returns(t)
                  /\ UNCHANGED <<progress, calls>>
    /\ UNCHANGED <<inputs, outputs, processed_files, tracking_file, events, lines,
                   todo, skipped, arg, res, exit_status, kept, aux, batch, startup>>

\* lines 239-241: progress_callback, called by run() while it works
ProgressCallback(t) ==
    /\ pc[t] = "transform"
    /\ \E percent \in ProgressValues :
          progress' = [exists |-> TRUE, progress |-> percent, filename |-> cur[t].name]
    /\ UNCHANGED <<inputs, outputs, processed_files, tracking_file, events, pc, cur, lines,
                   todo, cands, added, healed, calls, skipped, arg, res, exit_status, notes, kept, aux, batch, startup>>

\* Faulty variant: the success path drops the ledger entry, as the failure path does
TransformSucceedsForgets(t) ==
    /\ pc[t] = "transform"
    /\ outputs' = outputs \cup {OutputOf(cur[t])}
    /\ progress' = NoProgress
    /\ processed_files' = processed_files \ {cur[t]}
    /\ Returns(t)
    /\ UNCHANGED <<inputs, tracking_file, events, lines, todo, calls, skipped, arg, res,
                   exit_status, notes, kept, aux, batch, startup>>

\* lines 248-264: run() returns normally; the output exists, progress is cleared,
\* the success notification is sent; an exception at line 260 would be caught
\* at line 265 as a failure of the transform
TransformSucceeds(t) ==
    /\ pc[t] = "transform"
    /\ outputs' = outputs \cup {OutputOf(cur[t])}
    /\ progress' = NoProgress
    /\ \E o \in Osascript :
          /\ notes' = Notified("success", o)
          /\ IF SendMacosNotification(o) = "returned"
             THEN /\ Returns(t)
                  /\ UNCHANGED <<processed_files, calls, kept>>
             ELSE /\ processed_files' = processed_files \ {cur[t]}
                  /\ pc' = [pc EXCEPT ![t] = "pv_fail_read"]
                  /\ kept' = [u \in Threads |->
                                IF u = t
                                THEN (processed_files \cap Range(tracking_file)) \ {cur[t]}
                                ELSE kept[u] \ {cur[t]}]
                  /\ calls' = Noted("failed")
                  /\ UNCHANGED <<cur, cands, added, healed>>
    /\ UNCHANGED <<inputs, tracking_file, events, lines, todo, skipped, arg, res,
                   exit_status, aux, batch, startup>>

\* Faulty variant: on failure the progress record is reset to 0 percent, not deleted
TransformFailsResetsProgress(t) ==
    /\ pc[t] = "transform"
    /\ progress' = [exists |-> TRUE, progress |-> 0, filename |-> <<>>]
    /\ processed_files' = processed_files \ {cur[t]}
    /\ pc' = [pc EXCEPT ![t] = "pv_fail_read"]
    /\ kept' = [u \in Threads |->
                  IF u = t
                  THEN (processed_files \cap Range(tracking_file)) \ {cur[t]}
                  ELSE kept[u] \ {cur[t]}]
    /\ calls' = Noted("failed")
    /\ UNCHANGED <<inputs, outputs, tracking_file, events, cur, lines, todo, cands, added,
                   healed, skipped, arg, res, exit_status, notes, aux, batch, startup>>

\* lines 265-276: run() raises; progress is cleared, the failure notification is
\* sent and the path discarded; an exception at line 270 would leave the call
TransformFails(t) ==
    /\ pc[t] = "transform"
    /\ progress' = NoProgress
    /\ \E o \in Osascript :
          /\ notes' = Notified("failure", o)
          /\ IF SendMacosNotification(o) = "returned"
             THEN /\ processed_files' = processed_files \ {cur[t]}
                  /\ pc' = [pc EXCEPT ![t] = "pv_fail_read"]
                  /\ kept' = [u \in Threads |->
                                IF u = t
                                THEN (processed_files \cap Range(tracking_file)) \ {cur[t]}
                                ELSE kept[u] \ {cur[t]}]
                  /\ calls' = Noted("failed")
                  /\ UNCHANGED <<cur, cands, added, healed>>
             ELSE /\ Returns(t)
                  /\ calls' = Noted("failed")
                  /\ UNCHANGED <<processed_files, kept>>
    /\ UNCHANGED <<inputs, outputs, tracking_file, events, lines, todo, skipped, arg, res,
                   exit_status, aux, batch, startup>>

\* lines 279-284: read the tracking file, keep the other lines
PVFailRead(t) ==
    /\ pc[t] = "pv_fail_read"
    /\ lines' = [lines EXCEPT ![t] = FilterLines(tracking_file, cur[t])]
    /\ pc' = [pc EXCEPT ![t] = "pv_fail_write"]
    /\ UNCHANGED <<inputs, outputs, processed_files, tracking_file, progress, events, cur,
                   todo, cands, added, healed, calls, skipped, arg, res, exit_status, notes, kept, aux, batch, startup>>

\* lines 285-286: write them back; _process_video returns
PVFailWrite(t) ==
    /\ pc[t] = "pv_fail_write"
    /\ tracking_file' = lines[t]
    /\ lines' = [lines EXCEPT ![t] = <<>>]
    /\ kept' = [kept EXCEPT ![t] = {}]
    /\ Returns(t)
    /\ UNCHANGED <<inputs, outputs, processed_files, progress, events, todo, calls,
                   skipped, arg, res, exit_status, notes, aux, batch, startup>>

(***************************************************************************)
(* The observer thread: on_created.                                        *)
(***************************************************************************)
\* the observer thread has been started (line 493) and not stopped (line 601)
ObserverRuns == pc["listener"] # "off" /\ pc["main"] \notin {"joining", "exited"}

\* the file system reports a created file (a new file, or a second event for one)
FileCreated(f) ==
    /\ ObserverRuns
    /\ Len(events) < MaxQueue
    /\ inputs' = inputs \cup {f}
    /\ events' = Append(events, [type |-> "created", path |-> f, fs |-> "ok"])
    /\ UNCHANGED <<outputs, processed_files, tracking_file, progress, pc, cur, lines,
                   todo, cands, added, healed, calls, skipped, arg, res, exit_status, notes, kept, aux, batch, startup>>

\* lines 290-329: suffix, pattern and membership filters
OnCreated ==
    /\ ObserverRuns
    /\ pc["listener"] = "idle"
    /\ events # <<>>
    /\ Head(events).type = "created"
    /\ LET f == Head(events).path
       IN  IF IsMp4(f.name) /\ PatternMatch(f.name) /\ f \notin processed_files
           THEN /\ pc' = [pc EXCEPT !["listener"] = "stabilize"]
                /\ cur' = [cur EXCEPT !["listener"] = f]
           ELSE UNCHANGED <<pc, cur>>
    /\ events' = Tail(events)
    /\ UNCHANGED <<inputs, outputs, processed_files, tracking_file, progress, lines,
                   todo, cands, added, healed, calls, skipped, arg, res, exit_status, notes, kept, aux, batch, startup>>

(***************************************************************************)
(* The observer thread: on_moved.  A destination is a directory and a file *)
(* name.  Resolve gives the characters of the directory's resolved         *)
(* absolute path (shortened: /BD is input_folder); a symbolic link         *)
(* resolves to what it points to.                                          *)
(***************************************************************************)
RootDir == "Big Downloads"

\* the directories a destination may be in
MoveDirs ==
    {RootDir, "Big Downloads/sub", "Big Downloads2", "Big Downloads/link", "Elsewhere"}

\* the directories that are input_folder or lie under it
DirsUnderRoot == {RootDir, "Big Downloads/sub"}

Resolve(d) ==
    CASE d = RootDir -> <<"/", "B", "D">>
      [] d = "Big Downloads/sub" -> <<"/", "B", "D", "/", "s">>
      [] d = "Big Downloads2" -> <<"/", "B", "D", "2">>
      [] d = "Big Downloads/link" -> <<"/", "E">>
      [] d = "Elsewhere" -> <<"/", "E">>

StartsWith(s, prefix) ==
    Len(s) >= Len(prefix) /\ SubSeq(s, 1, Len(prefix)) = prefix

\* str(dest_path.resolve())
DestResolved(f) == Resolve(f.dir) \o <<"/">> \o f.name

\* Faulty variant: the prefix test without the separator
IsInsideNoSeparator(f) == StartsWith(DestResolved(f), Resolve(RootDir))

\* line 397: str(dest_resolved).startswith(str(input_resolved) + '/')
IsInside(f) == StartsWith(DestResolved(f), Resolve(RootDir) \o <<"/">>)

\* line 406: dest_path.parent.samefile(self.input_folder)
SameFile(d1, d2) == Resolve(d1) = Resolve(d2)

\* lines 394-412: what resolve() and samefile() do is part of the event:
\* "ok", "resolve_fails" (the fallback decides) or "all_fail"
Contained(e) ==
    CASE e.fs = "ok" -> IsInside(e.path)
      [] e.fs = "resolve_fails" -> SameFile(e.path.dir, RootDir)
      [] e.fs = "all_fail" -> FALSE

\* the file system reports a file moved or renamed to dest
FileMoved(dest, fs) ==
    /\ ObserverRuns
    /\ Len(events) < MaxQueue
    /\ inputs' = IF dest.dir \in DirsUnderRoot THEN inputs \cup {dest} ELSE inputs
    /\ events' = Append(events, [type |-> "moved", path |-> dest, fs |-> fs])
    /\ UNCHANGED <<outputs, processed_files, tracking_file, progress, pc, cur, lines,
                   todo, cands, added, healed, calls, skipped, arg, res, exit_status, notes, kept, aux, batch, startup>>

\* lines 366-420: suffix, pattern, containment and membership filters
OnMoved ==
    /\ ObserverRuns
    /\ pc["listener"] = "idle"
    /\ events # <<>>
    /\ Head(events).type = "moved"
    /\ LET e == Head(events)
           f == e.path
       IN  IF IsMp4(f.name) /\ PatternMatch(f.name)
           THEN IF Contained(e)
                THEN /\ IF f \notin processed_files
                        THEN /\ pc' = [pc EXCEPT !["listener"] = "mv_stabilize"]
                             /\ cur' = [cur EXCEPT !["listener"] = f]
                        ELSE UNCHANGED <<pc, cur>>
                     /\ skipped' = skipped
                ELSE /\ skipped' = {f}
                     /\ UNCHANGED <<pc, cur>>
           ELSE UNCHANGED <<pc, cur, skipped>>
    /\ events' = Tail(events)
    /\ UNCHANGED <<inputs, outputs, processed_files, tracking_file, progress, lines,
                   todo, cands, added, healed, calls, arg, res, exit_status, notes, kept, aux, batch, startup>>

\* lines 331-364 (on_moved: 422-448): the waits and size reads; a stat() error
\* aborts the candidate
OnCreatedStabilize(statOk) ==
    /\ pc["listener"] \in {"stabilize", "mv_stabilize"}
    /\ IF cur["listener"] \in inputs /\ statOk
       THEN /\ pc' = [pc EXCEPT !["listener"] = "pv_check"]
            /\ cur' = cur
       ELSE /\ pc' = [pc EXCEPT !["listener"] = "idle"]
            /\ cur' = [cur EXCEPT !["listener"] = None]
    /\ UNCHANGED <<inputs, outputs, processed_files, tracking_file, progress, events,
                   lines, todo, cands, added, healed, calls, skipped, arg, res, exit_status, notes, kept, aux, batch, startup>>

(***************************************************************************)
(* main(): the startup scan, then the sweeper thread is started.           *)
(***************************************************************************)
\* lines 498-509: matching files not in processed_files
Unprocessed == {f \in inputs : IsMp4(f.name) /\ PatternMatch(f.name) /\ f \notin processed_files}

\* history: what the startup scan has enumerated (line 498) and the files it
\* hands over (if the startup is recorded)
Scanned(handed) ==
    IF startup.on
    THEN [startup EXCEPT !.existing_files = inputs, !.handed = @ \o handed]
    ELSE startup

\* lines 511-526: sort newest first, hand the first to _process_video
StartupScan ==
    /\ pc["main"] = "scan"
    /\ IF Unprocessed = {}
       THEN /\ pc' = [pc EXCEPT !["main"] = "scan_done"]
            /\ cur' = cur
            /\ startup' = Scanned(<<>>)
       ELSE \E order \in Enumerations(Unprocessed) :
              /\ cur' = [cur EXCEPT !["main"] = SortNewestFirst(order)[1]]
              /\ pc' = [pc EXCEPT !["main"] = "pv_check"]
              /\ startup' = Scanned(<<SortNewestFirst(order)[1]>>)
    /\ UNCHANGED <<inputs, outputs, processed_files, tracking_file, progress, events,
                   lines, todo, cands, added, healed, calls, skipped, arg, res, exit_status, notes, kept, aux, batch>>

\* lines 592-598: check_thread.start(); main sleeps in its loop
StartSweeper ==
    /\ pc["main"] = "scan_done"
    /\ pc["sweeper"] = "off"
    /\ pc' = [pc EXCEPT !["main"] = "watching", !["sweeper"] = "sleep"]
    /\ UNCHANGED <<inputs, outputs, processed_files, tracking_file, progress, events, cur,
                   lines, todo, cands, added, healed, calls, skipped, arg, res, exit_status, notes, kept, aux, batch, startup>>

(***************************************************************************)
(* periodic_check: one tick.                                               *)
(***************************************************************************)
\* lines 539-545: enumerate the matching files
SweepTick ==
    /\ pc["sweeper"] = "sleep"
    /\ \E order \in Enumerations({f \in inputs : IsMp4(f.name) /\ PatternMatch(f.name)}) :
          todo' = order
    /\ pc' = [pc EXCEPT !["sweeper"] = "loop"]
    /\ UNCHANGED <<inputs, outputs, processed_files, tracking_file, progress, events, cur,
                   lines, cands, added, healed, calls, skipped, arg, res, exit_status, notes, kept, aux, batch, startup>>

\* lines 546-556 and 570-574: one file of the loop
SweepVisit ==
    /\ pc["sweeper"] = "loop"
    /\ todo # <<>>
    /\ LET f == Head(todo)
       IN  IF f \in processed_files
           THEN IF OutputOf(f) \notin outputs
                THEN /\ processed_files' = processed_files \ {f}
                     /\ healed' = healed \cup {f}
                     /\ cur' = [cur EXCEPT !["sweeper"] = f]
                     /\ pc' = [pc EXCEPT !["sweeper"] = "sw_read"]
                     /\ cands' = cands
                     /\ kept' = [u \in Threads |->
                                   IF u = "sweeper"
                                   THEN (processed_files \cap Range(tracking_file)) \ {f}
                                   ELSE kept[u] \ {f}]
                ELSE UNCHANGED <<processed_files, cur, pc, cands, healed, kept>>
           ELSE /\ cands' = IF OutputOf(f) \notin outputs THEN Append(cands, f) ELSE cands
                /\ UNCHANGED <<processed_files, cur, pc, healed, kept>>
    /\ todo' = Tail(todo)
    /\ UNCHANGED <<inputs, outputs, tracking_file, progress, events, lines, added, calls,
                   skipped, arg, res, exit_status, notes, aux, batch, startup>>

\* lines 559-564: read the tracking file, keep the other lines
SweepRead ==
    /\ pc["sweeper"] = "sw_read"
    /\ lines' = [lines EXCEPT !["sweeper"] = FilterLines(tracking_file, cur["sweeper"])]
    /\ pc' = [pc EXCEPT !["sweeper"] = "sw_write"]
    /\ UNCHANGED <<inputs, outputs, processed_files, tracking_file, progress, events, cur,
                   todo, cands, added, healed, calls, skipped, arg, res, exit_status, notes, kept, aux, batch, startup>>

\* lines 565-569: write them back; the file becomes a candidate
SweepWrite ==
    /\ pc["sweeper"] = "sw_write"
    /\ tracking_file' = lines["sweeper"]
    /\ lines' = [lines EXCEPT !["sweeper"] = <<>>]
    /\ cands' = Append(cands, cur["sweeper"])
    /\ cur' = [cur EXCEPT !["sweeper"] = None]
    /\ pc' = [pc EXCEPT !["sweeper"] = "loop"]
    /\ kept' = [kept EXCEPT !["sweeper"] = {}]
    /\ UNCHANGED <<inputs, outputs, processed_files, progress, events, todo, added, healed,
                   calls, skipped, arg, res, exit_status, notes, aux, batch, startup>>

\* lines 576-588: sort newest first, hand the first to _process_video
SweepDispatch ==
    /\ pc["sweeper"] = "loop"
    /\ todo = <<>>
    /\ IF cands = <<>>
       THEN /\ pc' = [pc EXCEPT !["sweeper"] = "sleep"]
            /\ cur' = cur
            /\ healed' = {}
       ELSE /\ cur' = [cur EXCEPT !["sweeper"] = SortNewestFirst(cands)[1]]
            /\ pc' = [pc EXCEPT !["sweeper"] = "pv_check"]
            /\ healed' = healed
    /\ UNCHANGED <<inputs, outputs, processed_files, tracking_file, progress, events,
                   lines, todo, cands, added, calls, skipped, arg, res, exit_status, notes, kept, aux, batch, startup>>

ProcessVideo(t) ==
    \/ PVCheck(t)
    \/ PVAdd(t)
    \/ SaveProcessedFile(t)
    \/ PVStart(t)
    \/ ProgressCallback(t)
    \/ TransformSucceeds(t)
    \/ TransformFails(t)
    \/ PVFailRead(t)
    \/ PVFailWrite(t)

(***************************************************************************)
(* The watcher process: all three threads.  Files arrive here by created   *)
(* events; a move into input_folder takes the same way after the           *)
(* containment test of on_moved, which MoveSpec covers.                    *)
(***************************************************************************)
Next ==
    \/ \E t \in Threads : ProcessVideo(t)
    \/ \E f \in Files : FileCreated(f)
    \/ OnCreated
    \/ \E statOk \in BOOLEAN : OnCreatedStabilize(statOk)
    \/ StartupScan
    \/ StartSweeper
    \/ SweepTick
    \/ SweepVisit
    \/ SweepRead
    \/ SweepWrite
    \/ SweepDispatch

Spec == Init /\ [][Next]_vars

(***************************************************************************)
(* The watcher when the file system delivers no event: the startup scan on *)
(* the main thread, then the sweeper alone.  Every thread that can take a  *)
(* step eventually takes one: sleep(30) ends and sora_wm.run() returns.    *)
(***************************************************************************)
SweepNext ==
    \/ \E t \in {"main", "sweeper"} : ProcessVideo(t)
    \/ StartupScan
    \/ StartSweeper
    \/ SweepTick
    \/ SweepVisit
    \/ SweepRead
    \/ SweepWrite
    \/ SweepDispatch

LiveSpec == Init /\ [][SweepNext]_vars /\ WF_vars(SweepNext)

(***************************************************************************)
(* A sequential driver: one thread that calls _process_video(p) for paths  *)
(* of its choice, one call after the other, as line 526 and test_file.py   *)
(* call the processing directly.  No observer and no sweeper run.          *)
(***************************************************************************)
MaxCalls == 2
\* the largest st_size a file under stabilization grows to
MaxSize == 2

\* the paths the driver passes: the files and a name the pattern rejects
CallPaths == Files \cup {FileN}

DriverCall(p) ==
    /\ pc["main"] = Return("main")
    /\ Len(calls) < MaxCalls
    /\ cur' = [cur EXCEPT !["main"] = p]
    /\ pc' = [pc EXCEPT !["main"] = "pv_check"]
    /\ calls' = Append(calls, [path |-> p, recorded |-> p \in processed_files,
                               invoked |-> FALSE, failed |-> FALSE])
    /\ UNCHANGED <<inputs, outputs, processed_files, tracking_file, progress, events,
                   lines, todo, cands, added, healed, skipped, arg, res, exit_status, notes, kept, aux, batch, startup>>

SeqNext ==
    \/ \E p \in CallPaths : DriverCall(p)
    \/ ProcessVideo("main")

SeqSpec == Start(Return("main")) /\ [][SeqNext]_vars

(***************************************************************************)
(* The observer thread alone, handling move events of every kind: main has *)
(* started the observer (line 493) and has not gone on yet.                *)
(***************************************************************************)
\* the destinations of the move events
MoveDests == {[dir |-> d, name |-> NameA] : d \in MoveDirs}

MoveNext ==
    \/ \E dest \in MoveDests, fs \in {"ok", "resolve_fails", "all_fail"} : FileMoved(dest, fs)
    \/ OnMoved
    \/ \E statOk \in BOOLEAN : OnCreatedStabilize(statOk)
    \/ ProcessVideo("listener")

MoveSpec == Init /\ [][MoveNext]_vars

(***************************************************************************)
(* The name tests applied to one file name after another, as               *)
(* test_pattern.py does for its list: pattern.match, the prefix, the       *)
(* output name, and the suffix test the event handlers make first.         *)
(***************************************************************************)
\* file names put together from parts: something before the date or not, a
\* date token, a separator, a time token, a second separator, a remainder
\* and an extension
NameParts ==
    [lead : {<<>>, <<"x">>},
     date : {<<"2","0","2","5","1","0","0","5">>, <<"2","0","2","5","1","1","0">>,
             <<"2","0","2","5","1","1","0","4","1">>, <<"2","0","2","5","1","1","0","a">>},
     sep1 : {<<"_">>, <<"-">>},
     time : {<<>>, <<"1","7","2">>, <<"1","2","0","9">>, <<"1","2","a">>},
     sep2 : {<<"_">>, <<>>},
     rest : {<<>>, <<"a","b","c","1","2","3">>, <<"_","b">>},
     ext  : {<<".","m","p","4">>, <<".","M","P","4">>, <<".","t","x","t">>, <<>>}]

Names ==
    {p.lead \o p.date \o p.sep1 \o p.time \o p.sep2 \o p.rest \o p.ext : p \in NameParts}
        \cup {NameA, NameB, NameN}

PatternInit ==
    /\ arg \in Names
    /\ res = NoResult
    /\ inputs = {}
    /\ outputs = {}
    /\ tracking_file = <<>>
    /\ processed_files = LoadProcessedFiles(tracking_file)
    /\ progress = NoProgress
    /\ events = <<>>
    /\ pc = [t \in Threads |-> "off"]
    /\ cur = [t \in Threads |-> None]
    /\ lines = [t \in Threads |-> <<>>]
    /\ todo = <<>>
    /\ cands = <<>>
    /\ added = [t \in Threads |-> {}]
    /\ healed = {}
    /\ calls = <<>>
    /\ skipped = {}
    /\ exit_status = "running"
    /\ notes = {}
    /\ kept = [t \in Threads |-> {}]
    /\ AuxInit
    /\ startup = NoStartup

\* the tests of one name
TestName ==
    /\ ~res.done
    /\ res' = [done |-> TRUE,
               mp4 |-> IsMp4(arg),
               matches |-> PatternMatch(arg),
               prefix |-> IF PatternMatch(arg) THEN ExtractFilenamePrefix(arg) ELSE <<>>,
               output |-> GenerateOutputFilename(arg)]
    /\ UNCHANGED <<inputs, outputs, processed_files, tracking_file, progress, events,
                   pc, cur, lines, todo, cands, added, healed, calls, skipped, arg,
                   exit_status, notes, kept, aux, batch, startup>>

\* the next name of the list
NextName ==
    /\ res.done
    /\ arg' \in Names
    /\ res' = NoResult
    /\ UNCHANGED <<inputs, outputs, processed_files, tracking_file, progress, events,
                   pc, cur, lines, todo, cands, added, healed, calls, skipped, exit_status, notes, kept, aux, batch, startup>>

PatternNext ==
    \/ TestName
    \/ NextName

PatternSpec == PatternInit /\ [][PatternNext]_vars

(***************************************************************************)
(* The watcher over several runs of the process: at any moment the process *)
(* may end (it is stopped or killed) and be started again.  The folders    *)
(* and the files in output_folder stay as they are; the new process builds *)
(* its VideoProcessor, which loads the tracking file.                      *)
(***************************************************************************)
Restart ==
    /\ pc["main"] # "scan"
    /\ processed_files' = LoadProcessedFiles(tracking_file)
    /\ events' = <<>>
    /\ pc' = [t \in Threads |->
                CASE t = "main" -> "scan" [] t = "listener" -> "idle" [] t = "sweeper" -> "off"]
    /\ cur' = [t \in Threads |-> None]
    /\ lines' = [t \in Threads |-> <<>>]
    /\ todo' = <<>>
    /\ cands' = <<>>
    /\ added' = [t \in Threads |-> {}]
    /\ healed' = {}
    /\ kept' = [t \in Threads |-> {}]
    /\ UNCHANGED <<inputs, outputs, tracking_file, progress, calls, skipped, arg, res,
                   exit_status, notes, aux, batch, startup>>

RestartNext ==
    \/ Next
    \/ Restart

RestartSpec == Init /\ [][RestartNext]_vars

(***************************************************************************)
(* The life of one watcher process: main() from its first line, the three  *)
(* threads, and the end of the process.  Ctrl+C raises KeyboardInterrupt   *)
(* in the main thread, wherever in its try block (lines 492-598) it is.    *)
(***************************************************************************)
BootInit ==
    /\ inputs \in SUBSET Files
    /\ outputs \in SUBSET {OutputOf(f) : f \in MatchingFiles}
    /\ tracking_file \in InitLogs
    /\ processed_files = {}
    /\ progress = NoProgress
    /\ events = <<>>
    /\ pc = [t \in Threads |-> IF t = "main" THEN "boot" ELSE "off"]
    /\ cur = [t \in Threads |-> None]
    /\ lines = [t \in Threads |-> <<>>]
    /\ todo = <<>>
    /\ cands = <<>>
    /\ added = [t \in Threads |-> {}]
    /\ healed = {}
    /\ calls = <<>>
    /\ skipped = {}
    /\ arg = <<>>
    /\ res = NoResult
    /\ exit_status = "running"
    /\ notes = {}
    /\ kept = [t \in Threads |-> {}]
    /\ AuxInit
    /\ startup = NoStartup

\* lines 458-460: input_folder.exists(); a folder that holds files exists
CheckInputFolder(rootExists) ==
    /\ pc["main"] = "boot"
    /\ inputs # {} => rootExists
    /\ pc' = [pc EXCEPT !["main"] = IF rootExists THEN "construct" ELSE "no_root"]
    /\ UNCHANGED <<inputs, outputs, processed_files, tracking_file, progress, events, cur,
                   lines, todo, cands, added, healed, calls, skipped, arg, res, exit_status, notes, kept, aux, batch, startup>>

\* lines 460 and 607-608: main() returns None and the script ends
ExitNoRoot ==
    /\ pc["main"] = "no_root"
    /\ exit_status = "running"
    /\ exit_status' = "success"
    /\ UNCHANGED <<inputs, outputs, processed_files, tracking_file, progress, events, pc,
                   cur, lines, todo, cands, added, healed, calls, skipped, arg, res, notes, kept, aux, batch, startup>>

\* lines 463-478: VideoProcessor(...) loads the tracking file
Construct ==
    /\ pc["main"] = "construct"
    /\ processed_files' = LoadProcessedFiles(tracking_file)
    /\ pc' = [pc EXCEPT !["main"] = "observe"]
    /\ UNCHANGED <<inputs, outputs, tracking_file, progress, events, cur, lines, todo,
                   cands, added, healed, calls, skipped, arg, res, exit_status, notes, kept, aux, batch, startup>>

\* line 493: observer.start()
ObserverStart ==
    /\ pc["main"] = "observe"
    /\ pc' = [pc EXCEPT !["main"] = "scan", !["listener"] = "idle"]
    /\ UNCHANGED <<inputs, outputs, processed_files, tracking_file, progress, events, cur,
                   lines, todo, cands, added, healed, calls, skipped, arg, res, exit_status, notes, kept, aux, batch, startup>>

\* KeyboardInterrupt in the main thread: what main was doing is abandoned
\* (except Exception in _process_video does not catch it) and control goes
\* to line 599
StopSignal ==
    /\ pc["main"] \in {"scan", "scan_done", "watching"} \/ InCall("main")
    /\ pc' = [pc EXCEPT !["main"] = "interrupted"]
    /\ cur' = [cur EXCEPT !["main"] = None]
    /\ lines' = [lines EXCEPT !["main"] = <<>>]
    /\ added' = [added EXCEPT !["main"] = {}]
    /\ kept' = [kept EXCEPT !["main"] = {}]
    /\ UNCHANGED <<inputs, outputs, processed_files, tracking_file, progress, events,
                   todo, cands, healed, calls, skipped, arg, res, exit_status, notes, aux, batch, startup>>

\* lines 600-601: observer.stop(); the observer takes no further event
ObserverStop ==
    /\ pc["main"] = "interrupted"
    /\ pc' = [pc EXCEPT !["main"] = "joining"]
    /\ UNCHANGED <<inputs, outputs, processed_files, tracking_file, progress, events, cur,
                   lines, todo, cands, added, healed, calls, skipped, arg, res, exit_status, notes, kept, aux, batch, startup>>

\* lines 603-604: observer.join() returns when the handler in progress has
\* returned; main() returns and the process ends, and with it the daemon
\* thread of periodic_check, wherever it is
ExitProcess ==
    /\ pc["main"] = "joining"
    /\ pc["listener"] = "idle"
    /\ pc' = [t \in Threads |-> IF t = "main" THEN "exited" ELSE "off"]
    /\ cur' = [cur EXCEPT !["sweeper"] = None]
    /\ lines' = [lines EXCEPT !["sweeper"] = <<>>]
    /\ added' = [added EXCEPT !["sweeper"] = {}]
    /\ todo' = <<>>
    /\ cands' = <<>>
    /\ healed' = {}
    /\ events' = <<>>
    /\ exit_status' = "success"
    /\ kept' = [kept EXCEPT !["sweeper"] = {}]
    /\ UNCHANGED <<inputs, outputs, processed_files, tracking_file, progress, calls,
                   skipped, arg, res, notes, aux, batch, startup>>

LifeNext ==
    \/ \E rootExists \in BOOLEAN : CheckInputFolder(rootExists)
    \/ ExitNoRoot
    \/ Construct
    \/ ObserverStart
    \/ Next
    \/ StopSignal
    \/ ObserverStop
    \/ ExitProcess

LifeSpec == BootInit /\ [][LifeNext]_vars

(***************************************************************************)
(* The startup scan and the sweeper (no file-system events) when steps of  *)
(* a tick raise errors: the enumeration, a check of an output file, the    *)
(* rewrite of the tracking file, the call of _process_video.  The tick is  *)
(* the body of try ... except Exception (lines 540-590) in while True.     *)
(***************************************************************************)
\* the locals of the tick are dropped; control is in the except branch, line 590
TickRaises ==
    /\ pc' = [pc EXCEPT !["sweeper"] = "sw_failed"]
    /\ cur' = [cur EXCEPT !["sweeper"] = None]
    /\ lines' = [lines EXCEPT !["sweeper"] = <<>>]
    /\ added' = [added EXCEPT !["sweeper"] = {}]
    /\ todo' = <<>>
    /\ cands' = <<>>
    /\ healed' = {}

\* lines 542-543: rglob raises
SweepTickFails ==
    /\ pc["sweeper"] = "sleep"
    /\ TickRaises
    /\ UNCHANGED <<inputs, outputs, processed_files, tracking_file, progress, events,
                   calls, skipped, arg, res, exit_status, notes, kept, aux, batch, startup>>

\* lines 546-553: a step of the loop over the files raises
SweepVisitFails ==
    /\ pc["sweeper"] = "loop"
    /\ todo # <<>>
    /\ TickRaises
    /\ UNCHANGED <<inputs, outputs, processed_files, tracking_file, progress, events,
                   calls, skipped, arg, res, exit_status, notes, kept, aux, batch, startup>>

\* lines 558-569: the rewrite of the tracking file raises; the inner except
\* logs it and the tick goes on.  A failed open(..., 'w') leaves the file as
\* it was, a failed write leaves it truncated.
SweepRewriteFails ==
    /\ pc["sweeper"] \in {"sw_read", "sw_write"}
    /\ \/ tracking_file' = tracking_file
       \/ pc["sweeper"] = "sw_write" /\ tracking_file' = <<>>
    /\ lines' = [lines EXCEPT !["sweeper"] = <<>>]
    /\ cands' = Append(cands, cur["sweeper"])
    /\ cur' = [cur EXCEPT !["sweeper"] = None]
    /\ pc' = [pc EXCEPT !["sweeper"] = "loop"]
    /\ kept' = [kept EXCEPT !["sweeper"] = {}]
    /\ UNCHANGED <<inputs, outputs, processed_files, progress, events, todo, added, healed,
                   calls, skipped, arg, res, exit_status, notes, aux, batch, startup>>

\* line 588: _process_video raises outside its own try block (lines 191-233)
SweepDispatchFails ==
    /\ pc["sweeper"] \in {"pv_check", "pv_add", "pv_save", "pv_start"}
    /\ TickRaises
    /\ UNCHANGED <<inputs, outputs, processed_files, tracking_file, progress, events,
                   calls, skipped, arg, res, exit_status, notes, kept, aux, batch, startup>>

\* Faulty variant: the error ends periodic_check
SweepDiesOnError ==
    /\ pc["sweeper"] = "sw_failed"
    /\ pc' = [pc EXCEPT !["sweeper"] = "off"]
    /\ UNCHANGED <<inputs, outputs, processed_files, tracking_file, progress, events, cur,
                   lines, todo, cands, added, healed, calls, skipped, arg, res, exit_status, notes, kept, aux, batch, startup>>

\* lines 589-590 and 538-539: the error is logged, the loop goes on with sleep(30)
SweepRecover ==
    /\ pc["sweeper"] = "sw_failed"
    /\ pc' = [pc EXCEPT !["sweeper"] = "sleep"]
    /\ UNCHANGED <<inputs, outputs, processed_files, tracking_file, progress, events, cur,
                   lines, todo, cands, added, healed, calls, skipped, arg, res, exit_status, notes, kept, aux, batch, startup>>

FaultNext ==
    \/ SweepNext
    \/ SweepTickFails
    \/ SweepVisitFails
    \/ SweepRewriteFails
    \/ SweepDispatchFails
    \/ SweepRecover

\* every thread that can take a step eventually takes one
FaultSpec == Init /\ [][FaultNext]_vars /\ WF_vars(FaultNext)

(***************************************************************************)
(* The stabilization of on_created (lines 331-364) and on_moved (lines     *)
(* 422-448) read by read: the listener thread alone, with a file that may  *)
(* grow or be deleted between two of its reads.  OnCreatedStabilize is the *)
(* same code in one step, for the specifications where only its outcome    *)
(* counts.                                                                 *)
(***************************************************************************)
Handlers == {"on_created", "on_moved"}

\* the position of handler h at a step of the stabilization
At(h, step) ==
    IF h = "on_created"
    THEN step
    ELSE CASE step = "stabilize" -> "mv_stabilize"
           [] step = "stat1" -> "mv_stat1"
           [] step = "stat2" -> "mv_stat2"
           [] step = "grace" -> "mv_grace"

StabPcs == {At(h, step) : h \in Handlers, step \in {"stabilize", "stat1", "stat2", "grace"}}

\* another process appends to the file the handler is waiting for
FileGrows ==
    /\ pc["listener"] \in StabPcs
    /\ cur["listener"] \in inputs
    /\ size < MaxSize
    /\ size' = size + 1
    /\ UNCHANGED <<inputs, outputs, processed_files, tracking_file, progress, events, pc,
                   cur, lines, todo, cands, added, healed, calls, skipped, arg, res,
                   exit_status, notes, kept, batch, startup, initial_size, current_size, waits, stabilized>>

\* another process deletes or moves away a file of input_folder
FileRemoved(f) ==
    /\ f \in inputs
    /\ inputs' = inputs \ {f}
    /\ UNCHANGED <<outputs, processed_files, tracking_file, progress, events, pc, cur,
                   lines, todo, cands, added, healed, calls, skipped, arg, res,
                   exit_status, notes, kept, aux, batch, startup>>

\* Faulty variant: a candidate given up is recorded as processed
StabReturnMarks(why) ==
    /\ pc' = [pc EXCEPT !["listener"] = "idle"]
    /\ cur' = [cur EXCEPT !["listener"] = None]
    /\ processed_files' = processed_files \cup {cur["listener"]}
    /\ stabilized' = {[path |-> cur["listener"], end |-> why, waits |-> waits',
                       growing |-> FALSE]}
    /\ size' = 0
    /\ initial_size' = 0
    /\ current_size' = 0
    /\ UNCHANGED <<inputs, outputs, tracking_file, progress, events, lines,
                   todo, cands, added, healed, calls, skipped, arg, res, exit_status, notes, kept, batch, startup>>

\* lines 336-338 and 358-360 (on_moved: 427-429, 442-444): logger.error and return
StabReturn(why) ==
    /\ pc' = [pc EXCEPT !["listener"] = "idle"]
    /\ cur' = [cur EXCEPT !["listener"] = None]
    /\ stabilized' = {[path |-> cur["listener"], end |-> why, waits |-> waits',
                       growing |-> FALSE]}
    /\ size' = 0
    /\ initial_size' = 0
    /\ current_size' = 0
    /\ UNCHANGED <<inputs, outputs, processed_files, tracking_file, progress, events, lines,
                   todo, cands, added, healed, calls, skipped, arg, res, exit_status, notes, kept, batch, startup>>

\* lines 362-364 (on_moved: 446-448): self._process_video(file_path)
StabDispatch(growing) ==
    /\ pc' = [pc EXCEPT !["listener"] = "pv_check"]
    /\ stabilized' = {[path |-> cur["listener"], end |-> "dispatch", waits |-> waits',
                       growing |-> growing]}
    /\ size' = 0
    /\ initial_size' = 0
    /\ current_size' = 0
    /\ UNCHANGED <<inputs, outputs, processed_files, tracking_file, progress, events, cur,
                   lines, todo, cands, added, healed, calls, skipped, arg, res, exit_status, notes, kept, batch, startup>>

\* lines 333-338 (on_moved: 424-429): time.sleep(2), then file_path.exists()
StabExists(h) ==
    /\ pc["listener"] = At(h, "stabilize")
    /\ waits' = 1
    /\ IF cur["listener"] \in inputs
       THEN /\ pc' = [pc EXCEPT !["listener"] = At(h, "stat1")]
            /\ UNCHANGED <<inputs, outputs, processed_files, tracking_file, progress,
                           events, cur, lines, todo, cands, added, healed, calls, skipped,
                           arg, res, exit_status, notes, kept, batch, startup, size, initial_size, current_size,
                           stabilized>>
       ELSE StabReturn("vanished")

\* lines 344-346 (on_moved: 434-436): initial_size = stat().st_size, time.sleep(1);
\* stat() raises for a file that is gone, and may raise for one that is there
StabInitialSize(h, statOk) ==
    /\ pc["listener"] = At(h, "stat1")
    /\ IF cur["listener"] \in inputs /\ statOk
       THEN /\ initial_size' = size
            /\ waits' = 2
            /\ pc' = [pc EXCEPT !["listener"] = At(h, "stat2")]
            /\ UNCHANGED <<inputs, outputs, processed_files, tracking_file, progress,
                           events, cur, lines, todo, cands, added, healed, calls, skipped,
                           arg, res, exit_status, notes, kept, batch, startup, size, current_size, stabilized>>
       ELSE /\ waits' = waits
            /\ StabReturn("stat_error")

\* Faulty variant: while the size keeps changing the handler waits and reads again
StabCurrentSizeLoops(h, statOk) ==
    /\ pc["listener"] = At(h, "stat2")
    /\ IF cur["listener"] \in inputs /\ statOk
       THEN IF size # initial_size
            THEN /\ initial_size' = size
                 /\ current_size' = size
                 /\ waits' = waits + 1
                 /\ UNCHANGED <<inputs, outputs, processed_files, tracking_file,
                                progress, events, pc, cur, lines, todo, cands, added, healed,
                                calls, skipped, arg, res, exit_status, notes, kept, batch, startup, size, stabilized>>
            ELSE /\ waits' = waits
                 /\ StabDispatch(FALSE)
       ELSE /\ waits' = waits
            /\ StabReturn("stat_error")

\* lines 347-356 (on_moved: 437-441): current_size = stat().st_size; a changed size
\* gets time.sleep(3), an unchanged one goes on to the dispatch
StabCurrentSize(h, statOk) ==
    /\ pc["listener"] = At(h, "stat2")
    /\ IF cur["listener"] \in inputs /\ statOk
       THEN IF size # initial_size
            THEN /\ current_size' = size
                 /\ waits' = 3
                 /\ pc' = [pc EXCEPT !["listener"] = At(h, "grace")]
                 /\ UNCHANGED <<inputs, outputs, processed_files, tracking_file,
                                progress, events, cur, lines, todo, cands, added, healed,
                                calls, skipped, arg, res, exit_status, notes, kept, batch, startup, size, initial_size,
                                stabilized>>
            ELSE /\ waits' = waits
                 /\ StabDispatch(FALSE)
       ELSE /\ waits' = waits
            /\ StabReturn("stat_error")

\* lines 353-355, 364: after time.sleep(3) on_created reads final_size, which it
\* compares with nothing; lines 441, 448: on_moved reads nothing more
StabGrace(h, statOk) ==
    /\ pc["listener"] = At(h, "grace")
    /\ waits' = waits
    /\ IF h = "on_created" /\ ~(cur["listener"] \in inputs /\ statOk)
       THEN StabReturn("stat_error")
       ELSE StabDispatch(cur["listener"] \in inputs /\ size # current_size)

StableNext ==
    \/ \E f \in Files : FileCreated(f)
    \/ \E f \in Files : FileMoved(f, "ok")
    \/ OnCreated
    \/ OnMoved
    \/ FileGrows
    \/ \E f \in Files : FileRemoved(f)
    \/ \E h \in Handlers : StabExists(h)
    \/ \E h \in Handlers, statOk \in BOOLEAN : StabInitialSize(h, statOk)
    \/ \E h \in Handlers, statOk \in BOOLEAN : StabCurrentSize(h, statOk)
    \/ \E h \in Handlers, statOk \in BOOLEAN : StabGrace(h, statOk)
    \/ ProcessVideo("listener")

StableSpec == Init /\ [][StableNext]_vars

(***************************************************************************)
(* The watcher with rewrites of the tracking file that do not complete.    *)
(* open(tracking_file, 'w') truncates the file (lines 285, 565) and        *)
(* writelines (lines 286, 566) then writes the kept lines; an I/O error,   *)
(* or the end of the process, between the two leaves the lines written so  *)
(* far.  The error is swallowed (lines 287-288) or logged (lines 567-568);  *)
(* Restart is the next process loading what the file holds.                *)
(***************************************************************************)
\* lines 285-288: the rewrite after a failed transform stops after n lines
PVRewriteInterrupted(t, n) ==
    /\ pc[t] = "pv_fail_write"
    /\ n < Len(lines[t])
    /\ tracking_file' = SubSeq(lines[t], 1, n)
    /\ lines' = [lines EXCEPT ![t] = <<>>]
    /\ kept' = [kept EXCEPT ![t] = {}]
    /\ Returns(t)
    /\ UNCHANGED <<inputs, outputs, processed_files, progress, events, todo, calls,
                   skipped, arg, res, exit_status, notes, aux, batch, startup>>

\* lines 565-569: the sweeper's rewrite stops after n lines; the tick goes on
SweepRewriteInterrupted(n) ==
    /\ pc["sweeper"] = "sw_write"
    /\ n < Len(lines["sweeper"])
    /\ tracking_file' = SubSeq(lines["sweeper"], 1, n)
    /\ lines' = [lines EXCEPT !["sweeper"] = <<>>]
    /\ kept' = [kept EXCEPT !["sweeper"] = {}]
    /\ cands' = Append(cands, cur["sweeper"])
    /\ cur' = [cur EXCEPT !["sweeper"] = None]
    /\ pc' = [pc EXCEPT !["sweeper"] = "loop"]
    /\ UNCHANGED <<inputs, outputs, processed_files, progress, events, todo, added, healed,
                   calls, skipped, arg, res, exit_status, notes, aux, batch, startup>>

CrashNext ==
    \/ Next
    \/ Restart
    \/ \E t \in Threads, n \in 0..MaxLog : PVRewriteInterrupted(t, n)
    \/ \E n \in 0..MaxLog : SweepRewriteInterrupted(n)

CrashSpec == Init /\ [][CrashNext]_vars

(***************************************************************************)
(* The choice of the newest candidate, as the startup scan (lines 511-523)  *)
(* and the sweeper (lines 576-586) make it: get_timestamp for every file of *)
(* a list of matching files, then the sort on that key, largest first.      *)
(***************************************************************************)
\* the longest list of candidates
MaxCands == 3

\* date tokens and time tokens of the candidates; \d+ admits a time token of
\* any length
KeyDates == {<<"2","0","2","5","1","1","0","1">>, <<"2","0","2","5","1","1","0","2">>}

KeyTimes == {<<"9","0","0">>, <<"0","9","3","0">>, <<"1","2","0","0">>}

KeyFiles ==
    {[dir |-> "Big Downloads", name |-> d \o <<"_">> \o t \o <<"_","x",".","m","p","4">>] :
        d \in KeyDates, t \in KeyTimes}

KeyLists ==
    {s \in UNION {[1..n -> KeyFiles] : n \in 2..MaxCands} :
        \A i, j \in 1..Len(s) : s[i] = s[j] => i = j}

KeyInit ==
    /\ cands \in KeyLists
    /\ res = NoResult
    /\ arg = <<>>
    /\ inputs = {}
    /\ outputs = {}
    /\ tracking_file = <<>>
    /\ processed_files = LoadProcessedFiles(tracking_file)
    /\ progress = NoProgress
    /\ events = <<>>
    /\ pc = [t \in Threads |-> "off"]
    /\ cur = [t \in Threads |-> None]
    /\ lines = [t \in Threads |-> <<>>]
    /\ todo = <<>>
    /\ added = [t \in Threads |-> {}]
    /\ healed = {}
    /\ calls = <<>>
    /\ skipped = {}
    /\ exit_status = "running"
    /\ notes = {}
    /\ kept = [t \in Threads |-> {}]
    /\ AuxInit
    /\ startup = NoStartup

\* lines 577-586: the keys of the candidates and the list sorted on them
SortCandidates ==
    /\ ~res.done
    /\ res' = [done |-> TRUE,
               keys |-> [i \in 1..Len(cands) |-> GetTimestamp(cands[i])],
               sorted |-> SortNewestFirst(cands)]
    /\ UNCHANGED <<inputs, outputs, processed_files, tracking_file, progress, events,
                   pc, cur, lines, todo, cands, added, healed, calls, skipped, arg,
                   exit_status, notes, kept, aux, batch, startup>>

KeyNext ==
    \/ SortCandidates

KeySpec == KeyInit /\ [][KeyNext]_vars

(***************************************************************************)
(* process_sora_shorts.py: the batch command.  main() checks the input     *)
(* folder, builds SoraWM, finds the matching files, keeps those without an  *)
(* output, asks for confirmation and passes the list to process_videos;     *)
(* sys.exit(main()) makes its result the exit status.                       *)
(***************************************************************************)
\* the .mp4 files the input folder may hold
BatchFiles == Files \cup {FileN}

\* what input() gives: an answer, Ctrl+C, or the end of standard input
Responses == {"y", "yes", "n", "", "interrupt", "eof"}

BatchInit ==
    /\ inputs \in SUBSET BatchFiles
    /\ outputs \in SUBSET {OutputOf(f) : f \in MatchingFiles}
    /\ tracking_file = <<>>
    /\ processed_files = {}
    /\ progress = NoProgress
    /\ events = <<>>
    /\ pc = [t \in Threads |-> IF t = "main" THEN "b_boot" ELSE "off"]
    /\ cur = [t \in Threads |-> None]
    /\ lines = [t \in Threads |-> <<>>]
    /\ todo = <<>>
    /\ cands = <<>>
    /\ added = [t \in Threads |-> {}]
    /\ healed = {}
    /\ calls = <<>>
    /\ skipped = {}
    /\ arg = <<>>
    /\ res = NoResult
    /\ exit_status = "running"
    /\ notes = {}
    /\ kept = [t \in Threads |-> {}]
    /\ AuxInit
    /\ startup = NoStartup

\* main() returns status (0 or 1), or ends in an uncaught exception (status 1)
BatchReturn(status, where) ==
    /\ pc' = [pc EXCEPT !["main"] = "b_exited"]
    /\ exit_status' = status
    /\ ended' = where

\* process_sora_shorts.py lines 173-177: input_folder.exists(); a folder that
\* holds files exists
BatchCheckInput(rootExists) ==
    /\ pc["main"] = "b_boot"
    /\ inputs # {} => rootExists
    /\ IF rootExists
       THEN /\ pc' = [pc EXCEPT !["main"] = "b_init"]
            /\ UNCHANGED <<exit_status, ended>>
       ELSE BatchReturn("failure", "no_root")
    /\ UNCHANGED <<inputs, outputs, processed_files, tracking_file, progress, events, cur,
                   lines, todo, cands, added, healed, calls, skipped, arg, res, notes,
                   kept, aux, startup, successful, failed, invoked>>

\* lines 193-200: SoraWM() is built; an exception there returns 1
BatchInitTransform(ok) ==
    /\ pc["main"] = "b_init"
    /\ IF ok
       THEN /\ pc' = [pc EXCEPT !["main"] = "b_find"]
            /\ UNCHANGED <<exit_status, ended>>
       ELSE BatchReturn("failure", "init_failed")
    /\ UNCHANGED <<inputs, outputs, processed_files, tracking_file, progress, events, cur,
                   lines, todo, cands, added, healed, calls, skipped, arg, res, notes,
                   kept, aux, startup, successful, failed, invoked>>

\* lines 89-111: filter_unprocessed keeps the files whose output does not exist
FilterUnprocessed(files) ==
    SelectSeq(files, LAMBDA f : OutputOf(f) \notin outputs)

\* lines 202-218: find_sora_shorts (rglob("*.mp4") and PATTERN.match, lines 81-83),
\* then filter_unprocessed; nothing found or nothing left returns 0
BatchFind ==
    /\ pc["main"] = "b_find"
    /\ \E all_files \in Enumerations({f \in inputs : IsMp4(f.name) /\ PatternMatch(f.name)}) :
          LET unprocessed_files == FilterUnprocessed(all_files)
          IN  IF unprocessed_files = <<>>
              THEN /\ BatchReturn("success", "nothing")
                   /\ cands' = cands
              ELSE /\ cands' = unprocessed_files
                   /\ pc' = [pc EXCEPT !["main"] = "b_confirm"]
                   /\ UNCHANGED <<exit_status, ended>>
    /\ UNCHANGED <<inputs, outputs, processed_files, tracking_file, progress, events, cur,
                   lines, todo, added, healed, calls, skipped, arg, res, notes,
                   kept, aux, startup, successful, failed, invoked>>

\* lines 228-236: input(...).strip().lower(); anything but y or yes, and Ctrl+C,
\* return 0; EOFError is not caught, and the interpreter exits with status 1
BatchConfirm(response) ==
    /\ pc["main"] = "b_confirm"
    /\ CASE response \in {"y", "yes"} ->
              /\ todo' = cands
              /\ pc' = [pc EXCEPT !["main"] = "b_loop"]
              /\ UNCHANGED <<exit_status, ended>>
         [] response = "eof" ->
              /\ BatchReturn("failure", "eof")
              /\ todo' = todo
         [] OTHER ->
              /\ BatchReturn("success", "cancelled")
              /\ todo' = todo
    /\ UNCHANGED <<inputs, outputs, processed_files, tracking_file, progress, events, cur,
                   lines, cands, added, healed, calls, skipped, arg, res, notes,
                   kept, aux, startup, successful, failed, invoked>>

\* Faulty variant: the loop ends at the first file whose transform raises
BatchRunStopsOnError(ok) ==
    /\ pc["main"] = "b_loop"
    /\ todo # <<>>
    /\ invoked' = Append(invoked, Head(todo))
    /\ IF ok
       THEN /\ outputs' = outputs \cup {OutputOf(Head(todo))}
            /\ successful' = successful + 1
            /\ failed' = failed
            /\ todo' = Tail(todo)
       ELSE /\ outputs' = outputs
            /\ successful' = successful
            /\ failed' = failed + 1
            /\ todo' = <<>>
    /\ UNCHANGED <<inputs, processed_files, tracking_file, progress, events, pc, cur,
                   lines, cands, added, healed, calls, skipped, arg, res, exit_status,
                   notes, kept, aux, startup, ended>>

\* lines 138-156: one file of the loop of process_videos: sora_wm.run inside
\* try, successful += 1 after it, failed += 1 in except Exception
BatchRun(ok) ==
    /\ pc["main"] = "b_loop"
    /\ todo # <<>>
    /\ invoked' = Append(invoked, Head(todo))
    /\ IF ok
       THEN /\ outputs' = outputs \cup {OutputOf(Head(todo))}
            /\ successful' = successful + 1
            /\ failed' = failed
       ELSE /\ outputs' = outputs
            /\ successful' = successful
            /\ failed' = failed + 1
    /\ todo' = Tail(todo)
    /\ UNCHANGED <<inputs, processed_files, tracking_file, progress, events, pc, cur,
                   lines, cands, added, healed, calls, skipped, arg, res, exit_status,
                   notes, kept, aux, startup, ended>>

\* lines 158 and 240-250: process_videos returns the counts; main returns
\* 0 if failed == 0 else 1
BatchFinish ==
    /\ pc["main"] = "b_loop"
    /\ todo = <<>>
    /\ BatchReturn(IF failed = 0 THEN "success" ELSE "failure", "finished")
    /\ UNCHANGED <<inputs, outputs, processed_files, tracking_file, progress, events, cur,
                   lines, todo, cands, added, healed, calls, skipped, arg, res, notes,
                   kept, aux, startup, successful, failed, invoked>>

BatchNext ==
    \/ \E rootExists \in BOOLEAN : BatchCheckInput(rootExists)
    \/ \E ok \in BOOLEAN : BatchInitTransform(ok)
    \/ BatchFind
    \/ \E response \in Responses : BatchConfirm(response)
    \/ \E ok \in BOOLEAN : BatchRun(ok)
    \/ BatchFinish

BatchSpec == BatchInit /\ [][BatchNext]_vars

(***************************************************************************)
(* Dispatches of files that share their date and time tokens: the same     *)
(* name in a subdirectory of input_folder, and a name with another          *)
(* remainder.  _process_video is called for one path after the other, as    *)
(* the event handlers call it for each created or moved file.               *)
(***************************************************************************)
NameC == <<"2","0","2","5","1","1","0","1","_","1","2","0","0","_","c",".","m","p","4">>

FileC == [dir |-> "Big Downloads", name |-> NameC]

FileSubA == [dir |-> "Big Downloads/sub", name |-> NameA]

SameStampFiles == {FileA, FileC, FileSubA}

SameStampInit ==
    /\ inputs = SameStampFiles
    /\ outputs = {}
    /\ tracking_file = <<>>
    /\ processed_files = LoadProcessedFiles(tracking_file)
    /\ progress = NoProgress
    /\ events = <<>>
    /\ pc = [t \in Threads |->
               CASE t = "main" -> Return("main") [] t = "listener" -> "idle"
                 [] t = "sweeper" -> "off"]
    /\ cur = [t \in Threads |-> None]
    /\ lines = [t \in Threads |-> <<>>]
    /\ todo = <<>>
    /\ cands = <<>>
    /\ added = [t \in Threads |-> {}]
    /\ healed = {}
    /\ calls = <<>>
    /\ skipped = {}
    /\ arg = <<>>
    /\ res = NoResult
    /\ exit_status = "running"
    /\ notes = {}
    /\ kept = [t \in Threads |-> {}]
    /\ AuxInit
    /\ startup = NoStartup

SameStampNext ==
    \/ \E p \in SameStampFiles : DriverCall(p)
    \/ ProcessVideo("main")

SameStampSpec == SameStampInit /\ [][SameStampNext]_vars

(***************************************************************************)
(* The startup of the watcher, recorded: from observer.start() (line 493)  *)
(* to check_thread.start() (line 593).  The observer thread handles        *)
(* created events while the main thread scans input_folder and calls       *)
(* _process_video; the sweeper is started and never ticks.  The history    *)
(* keeps processed_files as _load_processed_files left it, the files that  *)
(* were under input_folder then, the files the scan has enumerated and     *)
(* what it has handed over.                                                *)
(***************************************************************************)
StartupInit ==
    /\ StartState("scan")
    /\ startup = [on |-> TRUE, loaded |-> processed_files, present |-> inputs,
                  existing_files |-> {}, handed |-> <<>>]

StartupNext ==
    \/ \E t \in {"main", "listener"} : ProcessVideo(t)
    \/ \E f \in Files : FileCreated(f)
    \/ OnCreated
    \/ \E statOk \in BOOLEAN : OnCreatedStabilize(statOk)
    \/ StartupScan
    \/ StartSweeper

StartupSpec == StartupInit /\ [][StartupNext]_vars

(***************************************************************************)
(* Properties.                                                             *)
(***************************************************************************)
\* a thread that has passed the checks of _process_video and not yet left run()
Admitted(t) == pc[t] \in {"pv_add", "pv_save", "pv_start", "transform"}

\* C1: in every reachable state at most one transform invocation (sora_wm.run)
\* is in flight, whichever of the three threads called _process_video.
C1_SingleFlight == Cardinality({t \in Threads : Running(t)}) <= 1

\* C2: of two concurrent _process_video calls for the same path only one is
\* admitted (passes the ledger check and goes on to invoke the transform).
C2_OneAdmissionPerPath ==
    \A t1, t2 \in Threads :
        (t1 # t2 /\ Admitted(t1) /\ Admitted(t2)) => cur[t1] # cur[t2]

\* C3: while the transform runs for a path, the path is in processed_files;
\* no other thread (the sweeper in particular) takes the entry away.
C3_RunningIsRecorded ==
    \A t \in Threads : Running(t) => cur[t] \in processed_files

\* C5: when a _process_video call whose transform failed returns, its path is
\* in neither processed_files nor the tracking file, and a later call for the
\* path (not in the ledger) is admitted again.
C5_FailureRollback ==
    [][\A t \in Threads :
         /\ (pc[t] = "pv_fail_write" /\ pc'[t] = Return(t)) =>
               (cur[t] \notin processed_files' /\ cur[t] \notin Range(tracking_file'))
         /\ (pc[t] = "pv_check" /\ pc'[t] # "pv_check" /\ PatternMatch(cur[t].name)
               /\ cur[t] \notin processed_files) => pc'[t] = "pv_add"]_vars

\* C7: a _process_video call for a matching path that is not in the ledger but
\* whose output file already exists does not go on to the transform: it
\* returns, and the path is then in processed_files.
C7_ExistingOutputHeals ==
    [][\A t \in Threads :
         (/\ pc[t] = "pv_check" /\ pc'[t] # "pv_check"
          /\ PatternMatch(cur[t].name)
          /\ cur[t] \notin processed_files
          /\ OutputOf(cur[t]) \in outputs)
         => (pc'[t] = Return(t) /\ cur[t] \in processed_files')]_vars

C10_NewestFirst ==
    [][/\ (pc["sweeper"] = "loop" /\ pc'["sweeper"] = "pv_check")
            => /\ cur'["sweeper"] \in Range(cands)
               /\ \A c \in Range(cands) :
                     ~IntLess(GetTimestamp(cur'["sweeper"]), GetTimestamp(c))
       /\ (pc["main"] = "scan" /\ pc'["main"] = "pv_check")
            => /\ cur'["main"] \in Unprocessed
               /\ \A c \in Unprocessed :
                     ~IntLess(GetTimestamp(cur'["main"]), GetTimestamp(c))]_vars

\* both example files were candidates of one tick, and the second was dispatched
C10_Witness ==
    /\ pc["sweeper"] = "pv_check"
    /\ {FileA, FileB} \subseteq Range(cands)
    /\ cur["sweeper"] = FileB
    /\ GetTimestamp(FileA) = <<"2","0","2","5","1","1","0","1","1","2","0","0">>
    /\ GetTimestamp(FileB) = <<"2","0","2","5","1","1","0","2","1","3","0","0">>

\* the driver's call number i has returned
CallDone(i) == i < Len(calls) \/ pc["main"] = Return("main")

InvokedCount(i) ==
    (IF calls[i].invoked THEN 1 ELSE 0) + (IF calls[i + 1].invoked THEN 1 ELSE 0)

\* C4 as claimed: two calls of _process_video(p) in sequence invoke the
\* transform exactly once, for every path p (read in the claim's favour: for
\* every path that matches the pattern and is not recorded yet).
C4_Idempotent ==
    \A i \in 1..(Len(calls) - 1) :
        (/\ calls[i].path = calls[i + 1].path /\ CallDone(i + 1)
         /\ PatternMatch(calls[i].path.name) /\ ~calls[i].recorded)
        => InvokedCount(i) = 1

\* C4 as amended: for a matching path that is not in the ledger, two calls in
\* sequence invoke the transform exactly once when the first transform returns
\* normally (the second call finds the path recorded), and twice when the
\* first transform fails; a path that does not match, or is recorded already,
\* is handed to the transform by neither call.
C4_IdempotentAfterSuccess ==
    \A i \in 1..(Len(calls) - 1) :
        (calls[i].path = calls[i + 1].path /\ CallDone(i + 1)) =>
            IF ~PatternMatch(calls[i].path.name) \/ calls[i].recorded
            THEN InvokedCount(i) = 0
            ELSE IF calls[i].failed
            THEN InvokedCount(i) = 2
            ELSE calls[i].invoked /\ ~calls[i + 1].invoked

\* two calls for one matching, unrecorded path have returned; the first ran
\* the transform with success and the second did not run it
C4_Witness ==
    /\ Len(calls) = 2
    /\ CallDone(2)
    /\ calls[1].path = calls[2].path
    /\ PatternMatch(calls[1].path.name)
    /\ ~calls[1].recorded /\ calls[1].invoked /\ ~calls[1].failed
    /\ calls[2].recorded /\ ~calls[2].invoked

\* C9: a matching file under the watched root that has no output is eventually
\* handed to the transform (or its output comes to exist), whatever the other
\* candidates and the outcomes of their transforms.
C9_EventuallyDispatched ==
    \A f \in MatchingFiles :
        [](f \in inputs /\ OutputOf(f) \notin outputs
             => <>(OutputOf(f) \in outputs \/ \E t \in Threads : Running(t) /\ cur[t] = f))

\* C11: one reconciliation tick calls _process_video for at most one of its
\* candidates: the call is made once, when the loop over the files has ended,
\* and when it returns the tick is over (the sweeper sleeps); the sweeper adds
\* no other candidate of the tick to processed_files.
C11_OneDispatchPerTick ==
    [][/\ (~InCall("sweeper") /\ InCall("sweeper")')
            => (/\ pc["sweeper"] = "loop" /\ todo = <<>> /\ cands # <<>>
                /\ cur'["sweeper"] \in Range(cands))
       /\ (InCall("sweeper") /\ ~InCall("sweeper")') => pc'["sweeper"] = "sleep"
       /\ \A c \in Range(cands) :
            (/\ pc'["sweeper"] # pc["sweeper"] /\ c # cur'["sweeper"]
             /\ c \notin processed_files) => c \notin processed_files']_vars

\* a tick found two candidates; the transform runs for one of them and the
\* other is in neither processed_files nor the tracking file
C11_Witness ==
    /\ Running("sweeper")
    /\ Len(cands) = 2
    /\ \E c \in Range(cands) :
          /\ c # cur["sweeper"]
          /\ c \notin processed_files
          /\ c \notin Range(tracking_file)

\* C12: a move event whose destination resolves to a place outside
\* input_folder (a sibling directory whose name starts with the root's name
\* included) never reaches stabilization or _process_video, though its name
\* matches; a matching destination in input_folder or in a subdirectory of it
\* passes the containment test (and goes on to stabilization when it is not in
\* processed_files).
C12_MoveContained ==
    [][/\ pc'["listener"] # "idle" => cur'["listener"].dir \in DirsUnderRoot
       /\ (pc["listener"] = "idle" /\ events # <<>> /\ events' = Tail(events)
             /\ Head(events).type = "moved")
            => LET e == Head(events)
               IN  /\ e.path.dir \notin DirsUnderRoot
                        => (pc'["listener"] = "idle" /\ e.path \notin processed_files')
                   /\ (/\ e.path.dir \in DirsUnderRoot /\ e.fs = "ok"
                       /\ IsMp4(e.path.name) /\ PatternMatch(e.path.name)
                       /\ e.path \notin processed_files)
                        => (pc'["listener"] = "mv_stabilize" /\ cur'["listener"] = e.path)]_vars

\* a matching file moved to the sibling directory Big Downloads2 was skipped,
\* and the transform runs for one moved to a subdirectory of input_folder
C12_Witness ==
    /\ [dir |-> "Big Downloads2", name |-> NameA] \in skipped
    /\ Running("listener")
    /\ cur["listener"] = [dir |-> "Big Downloads/sub", name |-> NameA]

\* the shape the matching rule describes, with the end of the time token at k:
\* 8 digits, an underscore, the digits up to k, an underscore
ShapeAt(name, k) ==
    /\ k >= 10 /\ k + 1 <= Len(name)
    /\ \A i \in 1..8 : name[i] \in Digits
    /\ name[9] = "_"
    /\ \A i \in 10..k : name[i] \in Digits
    /\ name[k + 1] = "_"

HasShape(name) == \E k \in 10..Len(name) : ShapeAt(name, k)

EndsInMp4(name) ==
    /\ Len(name) >= 4
    /\ SubSeq(name, Len(name) - 3, Len(name)) \in {<<".","m","p","4">>, <<".","M","P","4">>}

TimeToken(name) ==
    LET k == CHOOSE j \in 10..Len(name) : ShapeAt(name, j) IN SubSeq(name, 10, k)

\* C14: for a matching name the output name is wr_, the date token, an
\* underscore, the time token and .mp4, the same for every name with these
\* tokens whatever follows the second underscore; for a name whose prefix
\* cannot be parsed it is wr_ and the name unchanged.
C14_OutputName ==
    res.done =>
        IF HasShape(arg)
        THEN /\ res.output = <<"w","r","_">> \o SubSeq(arg, 1, 8) \o <<"_">>
                                \o TimeToken(arg) \o <<".","m","p","4">>
             /\ \A n \in Names :
                   (/\ HasShape(n) /\ SubSeq(n, 1, 8) = SubSeq(arg, 1, 8)
                    /\ TimeToken(n) = TimeToken(arg))
                   => GenerateOutputFilename(n) = res.output
        ELSE res.output = <<"w","r","_">> \o arg

\* the output name of 20251005_1209_abc123.mp4 has been derived
C14_Witness ==
    /\ res.done
    /\ arg = <<"2","0","2","5","1","0","0","5","_","1","2","0","9","_",
               "a","b","c","1","2","3",".","m","p","4">>
    /\ res.output = <<"w","r","_","2","0","2","5","1","0","0","5","_","1","2","0","9",
                      ".","m","p","4">>

C16_CompletedSurvivesRestart ==
    [][/\ (pc["main"] # "scan" /\ pc'["main"] = "scan")
            => \A p \in Files :
                  (/\ p \in processed_files /\ OutputOf(p) \in outputs
                   /\ \A t \in Threads : ~(InCall(t) /\ cur[t] = p))
                  => p \in processed_files'
       /\ \A t \in Threads :
            (pc[t] = "pv_check" /\ cur[t] \in processed_files) => pc'[t] # "pv_add"]_vars

\* a thread between the two halves of an add (memory, then log) or of a
\* remove (memory, then the rewrite of the log)
InLedgerUpdate(t) ==
    pc[t] \in {"pv_save", "pv_fail_read", "pv_fail_write", "sw_read", "sw_write"}

\* C17: when no add to or remove from the ledger is under way, the paths in
\* the tracking file are the paths in processed_files, also after an append by
\* one thread has interleaved with a read-filter-rewrite by another.
C17_LogEqualsMemory ==
    (\A t \in Threads : ~InLedgerUpdate(t)) => Range(tracking_file) = processed_files

\* C18: when input_folder does not exist at startup, neither the observer
\* nor the startup scan nor the sweeper is started, no event is handled and
\* no _process_video call is made, and the process ends with a failure
\* (nonzero) exit status.
C18_NoRootIsFatal ==
    pc["main"] = "no_root" =>
        /\ pc["listener"] = "off" /\ pc["sweeper"] = "off"
        /\ events = <<>>
        /\ \A t \in Threads : ~InCall(t)
        /\ exit_status # "success"

\* C20: once the observer has been stopped no event is taken up any more,
\* and a _process_video call leaves its thread only by returning (its
\* transform completed or failed, ledger and progress brought up to date),
\* on the observer thread, in the startup scan and in the sweeper alike: the
\* stop signal and the end of the process cut no call short.
C20_StopLetsCallsFinish ==
    [][/\ (pc["main"] \in {"joining", "exited"} /\ pc["listener"] = "idle")
            => pc'["listener"] \in {"idle", "off"}
       /\ \A t \in Threads :
            (InCall(t) /\ ~InCall(t)') => pc'[t] = Return(t)]_vars

\* C19: an error raised in a reconciliation tick (in the enumeration, the
\* ledger rewrite, the call of _process_video or the transform) does not end
\* the sweeper: after the error the sweeper sleeps again, and from its sleep
\* it starts a next tick.
C19_SweeperSurvivesErrors ==
    /\ [](pc["sweeper"] = "sw_failed" => <>(pc["sweeper"] = "sleep"))
    /\ [](pc["sweeper"] = "sleep" => <>(pc["sweeper"] \in {"loop", "sw_failed"}))
    /\ [][pc["sweeper"] # "off" => pc'["sweeper"] # "off"]_vars

\* an error has been raised in a tick and caught by the except branch of the loop
C19_Witness ==
    /\ pc["sweeper"] = "sw_failed"
    /\ pc["main"] = "watching"
    /\ exit_status = "running"

\* C21: a stabilization that finds the file gone after the initial delay, or whose
\* size read fails, returns without dispatching: the listener goes back to idle,
\* and processed_files, the tracking file and the progress file are as before,
\* so the path is still outside the ledger
C21_AbortLeavesNoTrace ==
    [][/\ (pc["listener"] \in StabPcs /\ pc'["listener"] = "idle")
            => /\ processed_files' = processed_files
               /\ tracking_file' = tracking_file
               /\ progress' = progress
               /\ cur["listener"] \notin processed_files'
       /\ (/\ pc["listener"] \in StabPcs \ {"mv_grace"}
           /\ cur["listener"] \notin inputs)
            => pc'["listener"] \in {pc["listener"], "idle"}
       /\ (stabilized' # stabilized /\ \E r \in stabilized' : r.end # "dispatch")
            => pc'["listener"] = "idle"]_vars

\* a matching file outside the ledger was given up, once because it had vanished
C21_Witness ==
    /\ \E r \in stabilized : r.end = "vanished" /\ r.path \notin processed_files
    /\ pc["listener"] = "idle"

\* C22: a stabilization sleeps at most three times, the third time only after a
\* changed size, never goes back to an earlier step, and ends in a return or in
\* one call of _process_video, also for a file that has grown again during the
\* third sleep
C22_StabilizationIsBounded ==
    /\ [](waits <= 3)
    /\ [][pc["listener"] \in StabPcs /\ pc'["listener"] # pc["listener"]
            => \/ pc'["listener"] \in {"idle", "pv_check"}
               \/ \E h \in Handlers :
                    \/ pc["listener"] = At(h, "stabilize") /\ pc'["listener"] = At(h, "stat1")
                    \/ pc["listener"] = At(h, "stat1") /\ pc'["listener"] = At(h, "stat2")
                    \/ /\ pc["listener"] = At(h, "stat2")
                       /\ pc'["listener"] = At(h, "grace")
                       /\ size # initial_size]_vars
    /\ [][pc'["listener"] \in StabPcs /\ pc'["listener"] = pc["listener"] => waits' = waits]_vars
    /\ [][pc'["listener"] = "pv_check" /\ pc["listener"] # "pv_check"
            => pc["listener"] \in StabPcs /\ cur'["listener"] = cur["listener"]]_vars
    /\ [][pc["listener"] = "pv_check" => pc'["listener"] \notin StabPcs]_vars

\* a file still growing after the third sleep has been dispatched
C22_Witness ==
    /\ \E r \in stabilized : r.end = "dispatch" /\ r.waits = 3 /\ r.growing
    /\ pc["listener"] = "pv_check"

\* C23: a removal of p, after a failed transform or by the sweeper, takes p alone
\* out of processed_files, leaves no line p in the tracking file, and every other
\* path that was in processed_files and in the tracking file when the removal
\* began, and that no other removal has discarded since, is still in
\* processed_files and still has its line when the removal has written the file
C23_RemoveDeletesOnlyP ==
    [][\A t \in Threads :
         /\ (pc'[t] \in {"pv_fail_read", "sw_read"} /\ pc[t] # pc'[t])
              => processed_files' = processed_files \ {cur'[t]}
         /\ (pc[t] \in {"pv_fail_write", "sw_write"} /\ pc'[t] # pc[t])
              => /\ processed_files' = processed_files
                 /\ cur[t] \notin Range(tracking_file')
                 /\ \A q \in kept[t] :
                      q \in processed_files' /\ q \in Range(tracking_file')]_vars

\* C24: whatever happens during the rewrite of the tracking file by a removal,
\* the file holds afterwards what it held before the rewrite or all the lines
\* the removal kept, so no line of another path is lost to a later load
C24_RewriteIsAtomic ==
    [][\A t \in Threads :
         (pc[t] \in {"pv_fail_write", "sw_write"} /\ pc'[t] # pc[t])
           => tracking_file' \in {tracking_file, lines[t]}]_vars

\* C25: no step of the sweeper thread adds a path to processed_files, and the
\* sweeper thread never executes _process_video: the ledger add and the call of
\* the transform for its candidate are made by another task
C25_SweeperOnlyHandsOver ==
    [][pc'["sweeper"] # pc["sweeper"]
         => /\ processed_files' \subseteq processed_files
            /\ ~InCall("sweeper")']_vars

\* C26: whatever osascript does at the start, success and failure notifications,
\* the call goes on as if the notification had been sent: after the start
\* notification the transform is entered, a failed transform leaves no progress
\* file and takes the path out of processed_files before the tracking file is
\* rewritten, and a successful one keeps the path and returns
C26_NotificationNeverPropagates ==
    [][/\ (pc["main"] = "pv_start" /\ pc'["main"] # "pv_start")
            => pc'["main"] = "transform"
       /\ (pc["main"] = "transform" /\ pc'["main"] # "transform")
            => /\ progress' = NoProgress
               /\ IF calls'[Len(calls')].failed
                  THEN /\ cur["main"] \notin processed_files'
                       /\ pc'["main"] = "pv_fail_read"
                  ELSE /\ cur["main"] \in processed_files'
                       /\ pc'["main"] = Return("main")
       /\ (pc["main"] = "pv_fail_write" /\ pc'["main"] # "pv_fail_write")
            => cur["main"] \notin Range(tracking_file')]_vars

\* osascript raised at the failure notification and the path is out of the ledger
C26_Witness ==
    /\ \E r \in notes : r.point = "failure" /\ r.osascript = "raises"
    /\ pc["main"] = "pv_fail_read"
    /\ progress = NoProgress
    /\ cur["main"] \notin processed_files
    /\ calls[Len(calls)].invoked

\* the file f carries the later timestamp: the later date token, or the same date
\* token and the later time token, each token read as a number
LaterStamp(f, g) ==
    \/ IntLess(Group1(g.name), Group1(f.name))
    \/ /\ Group1(g.name) = Group1(f.name)
       /\ IntLess(Group2(g.name), Group2(f.name))

\* C27: of two matching files the one with the later date token, or with the same
\* date token and the later time token, has the strictly larger key
\* int(date + time), whatever the lengths of the two time tokens
C27_KeyOrdersByTimestamp ==
    res.done =>
        \A i, j \in 1..Len(cands) :
            LaterStamp(cands[i], cands[j]) => IntLess(res.keys[j], res.keys[i])

\* C28 as stated: the batch command exits with status 0 exactly when no file
\* failed, the missing input folder being the one other cause of status 1
C28_ExitZeroIffNoFileFailed ==
    pc["main"] = "b_exited"
        => (exit_status = "success" <=> (failed = 0 /\ ended # "no_root"))

\* C28, amended: once confirmed, process_videos passes every file of the
\* unprocessed list to the transform once, in order, whatever the earlier files
\* did, and successful + failed is the length of the list; the exit status is 0
\* exactly when no file failed and main() was not stopped by a missing input
\* folder, a failed SoraWM() or the end of standard input at the prompt
C28_BatchRunsAllAndReports ==
    /\ Len(invoked) = successful + failed
    /\ pc["main"] = "b_exited"
        => /\ ended = "finished" => (invoked = cands /\ successful + failed = Len(cands))
           /\ ended # "finished" => invoked = <<>>
           /\ exit_status = "success"
                <=> (failed = 0 /\ ended \notin {"no_root", "init_failed", "eof"})
           /\ exit_status \in {"success", "failure"}

\* two files were processed, the first failed, the second succeeded, status 1
C28_Witness ==
    /\ pc["main"] = "b_exited"
    /\ ended = "finished"
    /\ Len(invoked) = 2
    /\ OutputOf(invoked[1]) \notin outputs
    /\ OutputOf(invoked[2]) \in outputs
    /\ failed = 1
    /\ exit_status = "failure"

\* C29: a tick that visits a matching file whose output exists adds it to no
\* candidate list and leaves its membership of processed_files as it is, and
\* the file a tick hands to _process_video has no output
C29_TickSkipsFilesWithOutput ==
    [][/\ (/\ pc["sweeper"] = "loop"
           /\ todo # <<>>
           /\ todo' = Tail(todo)
           /\ OutputOf(Head(todo)) \in outputs)
            => /\ cands' = cands
               /\ pc'["sweeper"] = "loop"
               /\ Head(todo) \in processed_files' <=> Head(todo) \in processed_files
       /\ (pc["sweeper"] = "loop" /\ pc'["sweeper"] = "pv_check")
            => OutputOf(cur'["sweeper"]) \notin outputs]_vars

\* C30: sora_wm.run is never invoked for two different input paths with the same
\* output path, so no input's output is overwritten by the output of another
C30_NoSharedOutputPath ==
    \A i, j \in 1..Len(calls) :
        (/\ calls[i].invoked
         /\ calls[j].invoked
         /\ calls[i].path # calls[j].path)
            => OutputOf(calls[i].path) # OutputOf(calls[j].path)

\* the matching files the startup scan has enumerated that are not in the loaded
\* ledger, and those of them with the largest recency key
ScanCandidates ==
    {f \in startup.existing_files :
        IsMp4(f.name) /\ PatternMatch(f.name) /\ f \notin startup.loaded}

NewestCandidates ==
    {f \in ScanCandidates :
        \A g \in ScanCandidates : ~IntLess(GetTimestamp(f), GetTimestamp(g))}

\* the backlog: the candidates that were under input_folder when main() started
Backlog == ScanCandidates \cap startup.present

\* C31 as stated: between the start of the observer and the start of the sweeper
\* the startup scan hands over at most one file, one with the largest recency key
\* among the matching files not in the loaded ledger, and every other backlog
\* file is in no call of _process_video and not in processed_files.
C31_OnlyNewestBacklogDispatched ==
    (startup.on /\ pc["sweeper"] = "off")
        => /\ Len(startup.handed) <= 1
           /\ Range(startup.handed) \subseteq NewestCandidates
           /\ \A f \in Backlog \ NewestCandidates :
                 /\ f \notin processed_files
                 /\ \A t \in Threads : ~(InCall(t) /\ cur[t] = f)

\* C31, amended: between the start of the observer and the start of the sweeper
\* the main thread enters _process_video at most once, and only from the startup
\* scan; the file handed over is a matching file under input_folder that is not
\* in processed_files when the scan reads it, with the largest recency key among
\* those; and the steps of the main thread add no other path to processed_files
\* and append no other line to the tracking file.
C31_ScanHandsOverNewestUnprocessed ==
    [][(startup.on /\ pc["sweeper"] = "off")
          => /\ (~InCall("main") /\ InCall("main")')
                   => /\ startup.handed = <<>>
                      /\ startup'.handed = <<cur'["main"]>>
                      /\ cur'["main"] \in inputs
                      /\ IsMp4(cur'["main"].name) /\ PatternMatch(cur'["main"].name)
                      /\ cur'["main"] \notin processed_files
                      /\ \A g \in inputs :
                            (IsMp4(g.name) /\ PatternMatch(g.name) /\ g \notin processed_files)
                               => ~IntLess(GetTimestamp(cur'["main"]), GetTimestamp(g))
             /\ startup'.handed # startup.handed => (~InCall("main") /\ InCall("main")')
             /\ pc'["main"] # pc["main"]
                   => /\ processed_files' \ processed_files \subseteq Range(startup.handed)
                      /\ pc["main"] = "pv_save"
                            => tracking_file' = Append(tracking_file, startup.handed[1])]_vars

\* two backlog files: the scan handed over the newer one, its call has returned
\* with the output written, and the older one is in neither processed_files nor
\* the tracking file when the sweeper is about to be started
C31_Witness ==
    /\ startup.on
    /\ pc["sweeper"] = "off"
    /\ pc["main"] = "scan_done"
    /\ Backlog = {FileA, FileB}
    /\ startup.handed = <<FileB>>
    /\ OutputOf(FileB) \in outputs
    /\ FileB \in processed_files
    /\ FileA \notin processed_files
    /\ FileA \notin Range(tracking_file)

=============================================================================
